---- MODULE Spec2Model ----
(***************************************************************************)
(* A model of stock_viewer.py: the Tkinter stock price viewer.  The model  *)
(* covers the request validation (parse_date and the checks of             *)
(* _fetch_and_plot_async), the background fetch threads (_fetch_and_plot), *)
(* Tk's queue of `after` callbacks, the modal message boxes and the two    *)
(* callbacks that end a fetch cycle (_draw_plot, _on_fetch_error).         *)
(*                                                                         *)
(* Texts are sequences of one-character strings, so that trimming,         *)
(* splitting, upper-casing, int() and isoformat() are computed as the      *)
(* code computes them.                                                     *)
(***************************************************************************)
EXTENDS Integers, Sequences, FiniteSets, TLC

(***************************************************************************)
(* Bounds of the model.                                                    *)
(***************************************************************************)
\* fetch threads started in one run (the initial load included)
MaxCycles == 2
\* user interactions (edits, clicks, toggles) in one run
MaxUserActions == 2

(***************************************************************************)
(* Text helpers: str.strip, str.upper, str.split("-"), int().              *)
(***************************************************************************)
Digits == <<"0", "1", "2", "3", "4", "5", "6", "7", "8", "9">>

IsDigit(c) == \E i \in 1..10 : Digits[i] = c

DigitVal(c) == (CHOOSE i \in 1..10 : Digits[i] = c) - 1

IsSpace(c) == c \in {" ", "\t", "\n"}

RECURSIVE LStrip(_)
LStrip(s) == IF s # <<>> /\ IsSpace(Head(s)) THEN LStrip(Tail(s)) ELSE s

RECURSIVE RStrip(_)
RStrip(s) ==
    IF s # <<>> /\ IsSpace(s[Len(s)]) THEN RStrip(SubSeq(s, 1, Len(s) - 1)) ELSE s

\* str.strip()
Strip(s) == RStrip(LStrip(s))

Lower == <<"a", "f", "l", "m", "p", "s", "t">>
UpperOf == <<"A", "F", "L", "M", "P", "S", "T">>

\* str.upper(), on the letters the model's texts use
UpperChar(c) ==
    IF \E i \in 1..Len(Lower) : Lower[i] = c
    THEN UpperOf[CHOOSE i \in 1..Len(Lower) : Lower[i] = c]
    ELSE c

Upper(s) == [i \in 1..Len(s) |-> UpperChar(s[i])]

\* s.split("-"): the parts between the dashes, empty parts kept
RECURSIVE Split(_)
Split(s) ==
    IF \A i \in 1..Len(s) : s[i] # "-"
    THEN <<s>>
    ELSE LET k == CHOOSE i \in 1..Len(s) :
                      s[i] = "-" /\ \A j \in 1..(i - 1) : s[j] # "-"
         IN  <<SubSeq(s, 1, k - 1)>> \o Split(SubSeq(s, k + 1, Len(s)))

RECURSIVE DigitsValue(_)
DigitsValue(s) ==
    IF s = <<>> THEN 0
    ELSE IF s[Len(s)] = "_" THEN DigitsValue(SubSeq(s, 1, Len(s) - 1))
    ELSE 10 * DigitsValue(SubSeq(s, 1, Len(s) - 1)) + DigitVal(s[Len(s)])

\* the digits of an int() literal: digits, single underscores between them
IsIntBody(s) ==
    /\ s # <<>>
    /\ \A i \in 1..Len(s) : IsDigit(s[i]) \/ s[i] = "_"
    /\ IsDigit(s[1]) /\ IsDigit(s[Len(s)])
    /\ \A i \in 1..(Len(s) - 1) : ~(s[i] = "_" /\ s[i + 1] = "_")

\* int(x) of a text: surrounding whitespace and one sign are accepted
PyInt(x) ==
    LET t == Strip(x)
        signed == t # <<>> /\ t[1] \in {"+", "-"}
        body == IF signed THEN Tail(t) ELSE t
    IN  IF ~IsIntBody(body) THEN [ok |-> FALSE, val |-> 0]
        ELSE [ok |-> TRUE,
              val |-> IF signed /\ t[1] = "-" THEN 0 - DigitsValue(body)
                      ELSE DigitsValue(body)]

(***************************************************************************)
(* datetime.date: construction, ordinals, timedelta, isoformat.            *)
(***************************************************************************)
MINYEAR == 1
MAXYEAR == 9999

IsLeap(y) == y % 4 = 0 /\ (y % 100 # 0 \/ y % 400 = 0)

DaysInMonth(y, m) ==
    IF m = 2 THEN (IF IsLeap(y) THEN 29 ELSE 28)
    ELSE IF m \in {4, 6, 9, 11} THEN 30 ELSE 31

\* dt.date(y, m, d) returns a date or raises ValueError
ValidDate(y, m, d) ==
    /\ y >= MINYEAR /\ y <= MAXYEAR
    /\ m >= 1 /\ m <= 12
    /\ d >= 1 /\ d <= DaysInMonth(y, m)

Date(y, m, d) == [y |-> y, m |-> m, d |-> d]

DaysBeforeYear(y) ==
    (y - 1) * 365 + (y - 1) \div 4 - (y - 1) \div 100 + (y - 1) \div 400

RECURSIVE DaysBeforeMonth(_, _)
DaysBeforeMonth(y, m) ==
    IF m = 1 THEN 0 ELSE DaysBeforeMonth(y, m - 1) + DaysInMonth(y, m - 1)

\* date.toordinal()
ToOrdinal(dte) == DaysBeforeYear(dte.y) + DaysBeforeMonth(dte.y, dte.m) + dte.d

\* date.fromordinal(n)
FromOrdinal(n) ==
    LET y == CHOOSE yy \in (n \div 366)..(n \div 365 + 1) :
                 DaysBeforeYear(yy) < n /\ n <= DaysBeforeYear(yy + 1)
        r == n - DaysBeforeYear(y)
        m == CHOOSE mm \in 1..12 :
                 DaysBeforeMonth(y, mm) < r
                 /\ r <= DaysBeforeMonth(y, mm) + DaysInMonth(y, mm)
    IN  Date(y, m, r - DaysBeforeMonth(y, m))

\* date + timedelta(days=n)
AddDays(dte, n) == FromOrdinal(ToOrdinal(dte) + n)

\* date + timedelta(days=1), for a date before dt.date.max
NextDay(dte) ==
    IF dte.d < DaysInMonth(dte.y, dte.m) THEN Date(dte.y, dte.m, dte.d + 1)
    ELSE IF dte.m < 12 THEN Date(dte.y, dte.m + 1, 1)
    ELSE Date(dte.y + 1, 1, 1)

\* date < date
DateLess(a, b) == ToOrdinal(a) < ToOrdinal(b)

Pad(n, width) ==
    [i \in 1..width |-> Digits[((n \div (10 ^ (width - i))) % 10) + 1]]

\* date.isoformat(): YYYY-MM-DD, zero padded
IsoFormat(dte) == Pad(dte.y, 4) \o <<"-">> \o Pad(dte.m, 2) \o <<"-">> \o Pad(dte.d, 2)

(***************************************************************************)
(* parse_date and the validation of _fetch_and_plot_async.                 *)
(***************************************************************************)
NoDate == Date(0, 0, 0)

\* f"Invalid date: '{s}'. Expected YYYY-MM-DD"
InvalidDateMsg(s) == <<"Invalid date: '">> \o s \o <<"'. Expected YYYY-MM-DD">>

TickerEmptyMsg == <<"Ticker cannot be empty">>

EndBeforeStartMsg == <<"End date is before start date">>

Parsed(dte) == [ok |-> TRUE, date |-> dte, msg |-> <<>>]

Failure(m) == [ok |-> FALSE, date |-> NoDate, msg |-> m]

\* y, m, d = [int(x) for x in s.split("-")]; return dt.date(y, m, d)
ParseParts(s) ==
    LET parts == Split(s)
    IN  IF Len(parts) # 3 \/ \E i \in 1..Len(parts) : ~PyInt(parts[i]).ok
        THEN Failure(InvalidDateMsg(s))
        ELSE LET y == PyInt(parts[1]).val
                 m == PyInt(parts[2]).val
                 d == PyInt(parts[3]).val
             IN  IF ValidDate(y, m, d) THEN Parsed(Date(y, m, d))
                 ELSE Failure(InvalidDateMsg(s))

parse_date(s, fallback) ==
    LET t == Strip(s)
    IN  IF t = <<>> THEN Parsed(fallback) ELSE ParseParts(t)

VARIABLE today      \* the date of the system clock

\* dt.date.today()
Today == today

\* the current date of the runs of the application
RunDate == Date(2024, 7, 15)

NoRequest == [symbol |-> <<>>, start |-> NoDate, end |-> NoDate, interval |-> ""]

Rejected(m) == [ok |-> FALSE, req |-> NoRequest, msg |-> m]

\* CheckRange with `if end <= start`
CheckRangeStrict(symbol, start, end, interval) ==
    IF ~DateLess(start, end) THEN Rejected(EndBeforeStartMsg)
    ELSE [ok |-> TRUE,
          req |-> [symbol |-> symbol, start |-> start, end |-> end,
                   interval |-> interval],
          msg |-> <<>>]

\* if end < start: raise ValueError("End date is before start date")
CheckRange(symbol, start, end, interval) ==
    IF DateLess(end, start) THEN Rejected(EndBeforeStartMsg)
    ELSE [ok |-> TRUE,
          req |-> [symbol |-> symbol, start |-> start, end |-> end,
                   interval |-> interval],
          msg |-> <<>>]

\* interval = self.interval_var.get() or "1d"
IntervalOrDefault(iv) == IF iv = "" THEN "1d" ELSE iv

\* Validate without `if not symbol: raise ValueError(...)`
ValidateAnySymbol(symbol_text, start_text, end_text, interval_text) ==
    LET symbol == Upper(Strip(symbol_text))
        start == parse_date(start_text, AddDays(Today, 0 - 365))
        end == parse_date(end_text, Today)
    IN  IF ~start.ok THEN Rejected(start.msg)
        ELSE IF ~end.ok THEN Rejected(end.msg)
        ELSE CheckRange(symbol, start.date, end.date,
                        IntervalOrDefault(interval_text))

\* the try block of _fetch_and_plot_async: the request, or the message of
\* the first check that fails
Validate(symbol_text, start_text, end_text, interval_text) ==
    LET symbol == Upper(Strip(symbol_text))
        start == parse_date(start_text, AddDays(Today, 0 - 365))
        end == parse_date(end_text, Today)
    IN  IF symbol = <<>> THEN Rejected(TickerEmptyMsg)
        ELSE IF ~start.ok THEN Rejected(start.msg)
        ELSE IF ~end.ok THEN Rejected(end.msg)
        ELSE CheckRange(symbol, start.date, end.date,
                        IntervalOrDefault(interval_text))

(***************************************************************************)
(* The application state.                                                  *)
(***************************************************************************)
VARIABLES
    symbol_var,     \* text of the symbol entry
    start_var,      \* text of the start date entry
    end_var,        \* text of the end date entry
    interval_var,   \* value of the interval combobox
    ma5_var,        \* the three overlay checkbuttons
    ma20_var,
    ma50_var,
    load_btn,       \* state of the Load / Refresh button
    status_var,     \* text of the status bar
    fig,            \* what the figure shows
    threads,        \* the background threads started so far, in start order
    after_queue,    \* Tk's queue of `after(0, ...)` callbacks
    dialogs,        \* stack of open modal dialogs, the top one last
    nactions,       \* user interactions so far
    provider        \* the shape of the tables the installed provider returns

vars == <<symbol_var, start_var, end_var, interval_var, ma5_var, ma20_var,
          ma50_var, load_btn, status_var, fig, threads, after_queue, dialogs,
          nactions, provider, today>>

view == <<symbol_var, start_var, end_var, interval_var, ma5_var, ma20_var,
          ma50_var>>

widgets == <<load_btn, status_var, fig>>

\* texts the user types into the symbol entry
SymbolInputs == { <<" ">>, <<" ", "f", " ">> }

\* texts the user types into the start entry: a malformed one, and today's
\* date without the zero of the month
StartInputs ==
    { <<"7", "/", "1", "5">>, <<"2", "0", "2", "4", "-", "7", "-", "1", "5">> }

\* texts the user types into the end entry: a malformed one, and a date
\* before the default start
EndInputs ==
    { <<"x">>, <<"2", "0", "2", "3", "-", "1", "-", "5">> }

\* values=("1d","1wk","1mo","1h","30m","15m","5m","1m") of the combobox
IntervalValues == <<"1d", "1wk", "1mo", "1h", "30m", "15m", "5m", "1m">>

\* the intervals the model selects
IntervalChoices == {"1wk"}

\* the quick range buttons: a number of days, "ytd" or "max"
Ranges ==
    << [title |-> "1M", days |-> 30], [title |-> "3M", days |-> 90],
       [title |-> "6M", days |-> 182], [title |-> "YTD", days |-> 0],
       [title |-> "1Y", days |-> 365], [title |-> "5Y", days |-> 365 * 5],
       [title |-> "Max", days |-> 0] >>

\* the quick range buttons the model presses
RangeChoices == {"YTD"}

EmptyFig ==
    [drawn |-> FALSE, symbol |-> <<>>, price_col |-> "", interval |-> "",
     start |-> NoDate, end |-> NoDate, rows |-> 0, ma_cols |-> <<>>,
     volume |-> "none"]

NoDf ==
    [rows |-> 0, price_col |-> "", volume |-> "absent", prices |-> <<>>,
     ma5 |-> <<>>, ma20 |-> <<>>, ma50 |-> <<>>]

\* a value of a float column: NaN, or the quotient num / den
NaN == [nan |-> TRUE, num |-> 0, den |-> 1]

Quotient(num, den) == [nan |-> FALSE, num |-> num, den |-> den]

\* the window sum pandas keeps while it rolls over the column: the value
\* that enters the window is added, the one that leaves is subtracted
RECURSIVE RollSum(_, _, _)
RollSum(p, w, i) ==
    IF i = 0 THEN 0
    ELSE RollSum(p, w, i - 1) + p[i] - (IF i > w THEN p[i - w] ELSE 0)

\* Rolling with min_periods = window - 1
RollingShort(p, w) ==
    [i \in 1..Len(p) |->
        IF i < w - 1 THEN NaN ELSE Quotient(RollSum(p, w, i), w)]

\* df[price_col].rolling(window=w).mean(): NaN until the window is full
\* (min_periods defaults to the window), then the mean of the window
Rolling(p, w) ==
    [i \in 1..Len(p) |-> IF i < w THEN NaN ELSE Quotient(RollSum(p, w, i), w)]

\* the shapes of the tables yf.download returns: the price column they
\* carry, and a Volume column that is absent, two-dimensional (v[0] works)
\* or flat.  The shape is that of the installed provider.
Shapes ==
    { [price_col |-> "Close", volume |-> "nested"],
      [price_col |-> "Close", volume |-> "flat"],
      [price_col |-> "Adj Close", volume |-> "absent"] }

\* the numbers of rows of the tables the provider returns
RowCounts == {2}

\* a price column of n rows (prices in cents)
Prices(n, seed) == [i \in 1..n |-> 10000 + ((i * i * seed) % 101)]

\* the price columns the provider of the runs returns
Series == { Prices(n, 7) : n \in RowCounts }

\* a provider: the shape of its tables and the price columns it returns
Provider(shape, series) ==
    [price_col |-> shape.price_col, volume |-> shape.volume, series |-> series]

\* the tables a provider returns
Tables(pr) ==
    { [rows |-> Len(p), price_col |-> pr.price_col, volume |-> pr.volume,
       prices |-> p, ma5 |-> <<>>, ma20 |-> <<>>, ma50 |-> <<>>] :
          p \in pr.series }

Unbound == <<>>

NoDataMsg == <<"No data returned. Try a different symbol, date range, or interval.">>

ProviderMsg == <<"provider error">>

NoCont == [kind |-> "none", id |-> 0]

Dialog(title, msg, cont) == [title |-> title, msg |-> msg, cont |-> cont]

Ready == [kind |-> "Ready", symbol |-> <<>>, interval |-> "", start |-> NoDate,
          end |-> NoDate, rows |-> 0]

\* f"Loading {symbol} {interval} from {start} to {end}..."
Loading(req) ==
    [kind |-> "Loading", symbol |-> req.symbol, interval |-> req.interval,
     start |-> req.start, end |-> req.end, rows |-> 0]

\* f"Loaded {symbol}: {len(df)} rows"
Loaded(symbol, rows) ==
    [kind |-> "Loaded", symbol |-> symbol, interval |-> "", start |-> NoDate,
     end |-> NoDate, rows |-> rows]

StatusError == [Ready EXCEPT !.kind = "Error"]

\* the arguments of yf.download: none before the call
NoCall == [symbol |-> <<>>, start |-> <<>>, end |-> <<>>, interval |-> ""]

\* dt.date.max
DateMax == Date(MAXYEAR, 12, 31)

\* end + dt.timedelta(days=1) raises OverflowError for dt.date.max
OverflowMsg == <<"date value out of range">>

\* the call with end=end.isoformat(), without the day added at line 212
ProviderCallLiteral(th) ==
    [symbol |-> th.symbol, start |-> IsoFormat(th.start),
     end |-> IsoFormat(th.end), interval |-> th.interval]

\* yf.download(symbol, start=start.isoformat(),
\*             end=end_inclusive.isoformat(), interval=interval, ...)
ProviderCall(th) ==
    [symbol |-> th.symbol, start |-> IsoFormat(th.start),
     end |-> IsoFormat(NextDay(th.end)), interval |-> th.interval]

\* the call the try block makes, if it gets as far as the call
Called(th) == IF th.end = DateMax THEN NoCall ELSE ProviderCall(th)

\* threading.Thread(target=self._fetch_and_plot, args=(symbol, start, end,
\* interval)): the arguments, the thread's position and its locals.  ma_seen
\* records the overlays that were enabled when the thread was started, sched
\* the callbacks the thread has passed to self.after, and callback what became
\* of them.
NewThread(req, ma) ==
    [symbol |-> req.symbol, start |-> req.start, end |-> req.end,
     interval |-> req.interval, pc |-> "download", call |-> NoCall,
     df |-> NoDf, e |-> Unbound,
     ma_cols |-> <<>>, ma_seen |-> ma, sched |-> <<>>, callback |-> "none",
     updates |-> 0]

\* a thread whose callback has run: its locals and the closure are released
Retired(th, outcome) ==
    [th EXCEPT !.symbol = <<>>, !.start = NoDate, !.end = NoDate,
               !.interval = "", !.call = NoCall, !.df = NoDf, !.e = Unbound,
               !.ma_cols = <<>>,
               !.ma_seen = <<>>, !.callback = outcome]

EnabledMAs(m5, m20, m50) ==
    (IF m5 THEN <<"MA5">> ELSE <<>>) \o (IF m20 THEN <<"MA20">> ELSE <<>>)
        \o (IF m50 THEN <<"MA50">> ELSE <<>>)

(***************************************************************************)
(* Init: the state __init__ leaves.  The entries hold the AppState         *)
(* defaults and the first _fetch_and_plot_async has run on them.           *)
(***************************************************************************)
Init ==
    /\ today = RunDate
    /\ symbol_var = <<"A", "A", "P", "L">>
    /\ start_var = IsoFormat(AddDays(Today, 0 - 365))
    /\ end_var = IsoFormat(Today)
    /\ interval_var = "1d"
    /\ ma5_var = TRUE
    /\ ma20_var = TRUE
    /\ ma50_var = TRUE
    /\ LET v == Validate(symbol_var, start_var, end_var, interval_var)
       IN  /\ v.ok
           /\ threads = <<NewThread(v.req, EnabledMAs(TRUE, TRUE, TRUE))>>
           /\ status_var = Loading(v.req)
    /\ load_btn = "disabled"
    /\ fig = EmptyFig
    /\ after_queue = <<>>
    /\ dialogs = <<>>
    /\ nactions = 0
    /\ provider \in { Provider(sh, Series) : sh \in Shapes }

(***************************************************************************)
(* The interactive thread: the user's actions.  A modal dialog holds the   *)
(* grab, so the controls react only while no dialog is open.               *)
(***************************************************************************)
UserCanAct == dialogs = <<>> /\ nactions < MaxUserActions

\* _fetch_and_plot_async disabling the button and setting the status before
\* it validates
fetch_and_plot_async_early(start_text, end_text, ma) ==
    LET v == Validate(symbol_var, start_text, end_text, interval_var)
    IN  IF ~v.ok
        THEN /\ dialogs' = Append(dialogs, Dialog("Input error", v.msg, NoCont))
             /\ load_btn' = "disabled"
             /\ status_var' = [Ready EXCEPT !.kind = "Loading"]
             /\ UNCHANGED threads
        ELSE /\ Len(threads) < MaxCycles
             /\ load_btn' = "disabled"
             /\ status_var' = Loading(v.req)
             /\ threads' = Append(threads, NewThread(v.req, ma))
             /\ UNCHANGED dialogs

\* _fetch_and_plot_async without the status_var.set of line 204
fetch_and_plot_async_quiet(start_text, end_text, ma) ==
    LET v == Validate(symbol_var, start_text, end_text, interval_var)
    IN  IF ~v.ok
        THEN /\ dialogs' = Append(dialogs, Dialog("Input error", v.msg, NoCont))
             /\ UNCHANGED <<load_btn, status_var, threads>>
        ELSE /\ Len(threads) < MaxCycles
             /\ load_btn' = "disabled"
             /\ threads' = Append(threads, NewThread(v.req, ma))
             /\ UNCHANGED <<dialogs, status_var>>

\* _fetch_and_plot_async abandoning the cycles in flight when it starts one
fetch_and_plot_async_cancels(start_text, end_text, ma) ==
    LET v == Validate(symbol_var, start_text, end_text, interval_var)
    IN  IF ~v.ok
        THEN /\ dialogs' = Append(dialogs, Dialog("Input error", v.msg, NoCont))
             /\ UNCHANGED <<load_btn, status_var, threads>>
        ELSE /\ Len(threads) < MaxCycles
             /\ load_btn' = "disabled"
             /\ status_var' = Loading(v.req)
             /\ threads' = Append([i \in 1..Len(threads) |->
                                       [threads[i] EXCEPT !.pc = "done"]],
                                  NewThread(v.req, ma))
             /\ UNCHANGED dialogs

\* _fetch_and_plot_async on the given entry texts; ma is the state of the
\* overlay checkbuttons when it runs
fetch_and_plot_async(start_text, end_text, ma) ==
    LET v == Validate(symbol_var, start_text, end_text, interval_var)
    IN  IF ~v.ok
        THEN /\ dialogs' = Append(dialogs, Dialog("Input error", v.msg, NoCont))
             /\ UNCHANGED <<load_btn, status_var, threads>>
        ELSE /\ Len(threads) < MaxCycles
             /\ load_btn' = "disabled"
             /\ status_var' = Loading(v.req)
             /\ threads' = Append(threads, NewThread(v.req, ma))
             /\ UNCHANGED dialogs

EditSymbol(t) ==
    /\ UserCanAct
    /\ symbol_var' = t
    /\ nactions' = nactions + 1
    /\ UNCHANGED <<start_var, end_var, interval_var, ma5_var, ma20_var, ma50_var,
                   load_btn, status_var, fig, threads, after_queue, dialogs>>

EditStart(t) ==
    /\ UserCanAct
    /\ start_var' = t
    /\ nactions' = nactions + 1
    /\ UNCHANGED <<symbol_var, end_var, interval_var, ma5_var, ma20_var, ma50_var,
                   load_btn, status_var, fig, threads, after_queue, dialogs>>

EditEnd(t) ==
    /\ UserCanAct
    /\ end_var' = t
    /\ nactions' = nactions + 1
    /\ UNCHANGED <<symbol_var, start_var, interval_var, ma5_var, ma20_var,
                   ma50_var, load_btn, status_var, fig, threads, after_queue,
                   dialogs>>

SelectInterval(iv) ==
    /\ UserCanAct
    /\ interval_var' = iv
    /\ nactions' = nactions + 1
    /\ UNCHANGED <<symbol_var, start_var, end_var, ma5_var, ma20_var, ma50_var,
                   load_btn, status_var, fig, threads, after_queue, dialogs>>

\* the Load / Refresh button: a disabled button does not run its command
ClickLoad ==
    /\ UserCanAct
    /\ load_btn = "normal"
    /\ fetch_and_plot_async(start_var, end_var,
                            EnabledMAs(ma5_var, ma20_var, ma50_var))
    /\ nactions' = nactions + 1
    /\ UNCHANGED <<view, fig, after_queue>>

\* a checkbutton flips its variable, then runs _fetch_and_plot_async
ToggleMA5 ==
    /\ UserCanAct
    /\ ma5_var' = ~ma5_var
    /\ fetch_and_plot_async(start_var, end_var,
                            EnabledMAs(~ma5_var, ma20_var, ma50_var))
    /\ nactions' = nactions + 1
    /\ UNCHANGED <<symbol_var, start_var, end_var, interval_var, ma20_var,
                   ma50_var, fig, after_queue>>

ToggleMA20 ==
    /\ UserCanAct
    /\ ma20_var' = ~ma20_var
    /\ fetch_and_plot_async(start_var, end_var,
                            EnabledMAs(ma5_var, ~ma20_var, ma50_var))
    /\ nactions' = nactions + 1
    /\ UNCHANGED <<symbol_var, start_var, end_var, interval_var, ma5_var,
                   ma50_var, fig, after_queue>>

ToggleMA50 ==
    /\ UserCanAct
    /\ ma50_var' = ~ma50_var
    /\ fetch_and_plot_async(start_var, end_var,
                            EnabledMAs(ma5_var, ma20_var, ~ma50_var))
    /\ nactions' = nactions + 1
    /\ UNCHANGED <<symbol_var, start_var, end_var, interval_var, ma5_var,
                   ma20_var, fig, after_queue>>

\* QuickRange with the year to date starting a year earlier and the day
\* presets a day short
QuickRangeShort(title) ==
    LET r == CHOOSE x \in {Ranges[i] : i \in 1..Len(Ranges)} : x.title = title
    IN  IF title = "YTD" THEN <<Date(Today.y - 1, 1, 1), Today>>
        ELSE IF title = "Max" THEN <<Date(1980, 1, 1), Today>>
        ELSE <<AddDays(Today, 1 - r.days), Today>>

\* the (start, end) _set_quick_range computes for a button
QuickRange(title) ==
    LET r == CHOOSE x \in {Ranges[i] : i \in 1..Len(Ranges)} : x.title = title
    IN  IF title = "YTD" THEN <<Date(Today.y, 1, 1), Today>>
        ELSE IF title = "Max" THEN <<Date(1980, 1, 1), Today>>
        ELSE <<AddDays(Today, 0 - r.days), Today>>

set_quick_range(title) ==
    /\ UserCanAct
    /\ start_var' = IsoFormat(QuickRange(title)[1])
    /\ end_var' = IsoFormat(QuickRange(title)[2])
    /\ fetch_and_plot_async(start_var', end_var',
                            EnabledMAs(ma5_var, ma20_var, ma50_var))
    /\ nactions' = nactions + 1
    /\ UNCHANGED <<symbol_var, interval_var, ma5_var, ma20_var, ma50_var, fig,
                   after_queue>>

(***************************************************************************)
(* The background threads: _fetch_and_plot, one step per access to what    *)
(* the threads share with the interactive thread.                          *)
(***************************************************************************)
Callback(kind, i) == [kind |-> kind, id |-> i]

\* FetchFailed without the `return` of the except block: the thread goes on
\* to the moving averages
FetchFailedNoReturn(i, msg) ==
    /\ threads' = [threads EXCEPT ![i].call = Called(threads[i]),
                                  ![i].e = msg, ![i].pc = "ma20",
                                  ![i].sched = Append(@, "error")]
    /\ after_queue' = Append(after_queue, Callback("error", i))
    /\ UNCHANGED widgets

\* FetchFailed calling self._on_fetch_error(e) from the thread itself
FetchFailedDirect(i, msg) ==
    /\ threads' = [threads EXCEPT ![i].call = Called(threads[i]),
                                  ![i].e = msg, ![i].pc = "return",
                                  ![i].sched = Append(@, "error")]
    /\ after_queue' = Append(after_queue, Callback("error", i))
    /\ load_btn' = "normal"
    /\ status_var' = StatusError
    /\ UNCHANGED fig

\* yf.download raised, returned None or returned an empty table: the except
\* block binds e and passes `lambda: self._on_fetch_error(e)` to self.after
FetchFailed(i, msg) ==
    /\ threads' = [threads EXCEPT ![i].call = Called(threads[i]),
                                  ![i].e = msg, ![i].pc = "return",
                                  ![i].sched = Append(@, "error")]
    /\ after_queue' = Append(after_queue, Callback("error", i))
    /\ UNCHANGED widgets

\* yf.download returned a table with rows; the thread goes on to
\* `if self.ma5_var.get()`, its first access to shared state
FetchSucceeded(i, table) ==
    /\ threads' = [threads EXCEPT
                       ![i].call = Called(threads[i]),
                       ![i].df = [table EXCEPT
                                      !.ma5 = IF ma5_var
                                              THEN Rolling(table.prices, 5)
                                              ELSE <<>>],
                       ![i].ma_cols = IF ma5_var THEN <<"MA5">> ELSE <<>>,
                       ![i].pc = "ma20"]
    /\ UNCHANGED <<after_queue, widgets>>

\* the try block of _fetch_and_plot
Download(i) ==
    /\ threads[i].pc = "download"
    /\ IF threads[i].end = DateMax
       THEN FetchFailed(i, OverflowMsg)
       ELSE \/ FetchFailed(i, ProviderMsg)
            \/ FetchFailed(i, NoDataMsg)
            \/ \E table \in Tables(provider) : FetchSucceeded(i, table)
    /\ UNCHANGED <<view, dialogs, nactions>>

\* `return` leaves the except block, which unbinds e
ExitExcept(i) ==
    /\ threads[i].pc = "return"
    /\ threads' = [threads EXCEPT ![i].e = Unbound, ![i].pc = "done"]
    /\ UNCHANGED <<view, widgets, after_queue, dialogs, nactions>>

\* ReadMA20 passing the draw on before the last moving average
ReadMA20Draws(i) ==
    /\ threads[i].pc = "ma20"
    /\ threads' = [threads EXCEPT
                       ![i].df.ma20 = IF ma20_var
                                      THEN Rolling(threads[i].df.prices, 20)
                                      ELSE <<>>,
                       ![i].ma_cols = IF ma20_var THEN Append(@, "MA20") ELSE @,
                       ![i].pc = "ma50",
                       ![i].sched = Append(@, "draw")]
    /\ after_queue' = Append(after_queue, Callback("draw", i))
    /\ UNCHANGED <<view, widgets, dialogs, nactions>>

\* if self.ma20_var.get(): df["MA20"] = ...; ma_cols.append("MA20")
ReadMA20(i) ==
    /\ threads[i].pc = "ma20"
    /\ threads' = [threads EXCEPT
                       ![i].df.ma20 = IF ma20_var
                                      THEN Rolling(threads[i].df.prices, 20)
                                      ELSE <<>>,
                       ![i].ma_cols = IF ma20_var THEN Append(@, "MA20") ELSE @,
                       ![i].pc = "ma50"]
    /\ UNCHANGED <<view, widgets, after_queue, dialogs, nactions>>

\* if self.ma50_var.get(): ...; then
\* self.after(0, lambda: self._draw_plot(symbol, df, price_col, ma_cols, ...))
ScheduleDraw(i) ==
    /\ threads[i].pc = "ma50"
    /\ threads' = [threads EXCEPT
                       ![i].df.ma50 = IF ma50_var
                                      THEN Rolling(threads[i].df.prices, 50)
                                      ELSE <<>>,
                       ![i].ma_cols = IF ma50_var THEN Append(@, "MA50") ELSE @,
                       ![i].pc = "done",
                       ![i].sched = Append(@, "draw")]
    /\ after_queue' = Append(after_queue, Callback("draw", i))
    /\ UNCHANGED <<view, widgets, dialogs, nactions>>

(***************************************************************************)
(* The interactive thread: the callbacks Tk's event loop runs.  The loop   *)
(* also runs while a modal dialog is open.                                 *)
(***************************************************************************)
\* _on_fetch_error clearing the figure
on_fetch_error_clears(i) ==
    /\ load_btn' = "normal"
    /\ status_var' = StatusError
    /\ dialogs' = Append(dialogs, Dialog("Download error", threads[i].e, NoCont))
    /\ threads' = [threads EXCEPT ![i] = Retired(@, "handled")]
    /\ fig' = EmptyFig

\* _on_fetch_error(e)
on_fetch_error(i) ==
    /\ load_btn' = "normal"
    /\ status_var' = StatusError
    /\ dialogs' = Append(dialogs, Dialog("Download error", threads[i].e, NoCont))
    /\ threads' = [threads EXCEPT ![i] = Retired(@, "handled")]
    /\ UNCHANGED fig

\* the lambda reads e after the thread has left its except block: NameError,
\* which Tk reports; _on_fetch_error does not run
NameError(i) ==
    /\ threads' = [threads EXCEPT ![i] = Retired(@, "NameError")]
    /\ UNCHANGED <<load_btn, status_var, fig, dialogs>>

\* what _draw_plot puts on the figure: the price line, a line for each of
\* ma_cols, the title, and the volume bars when they can be extracted
DrawnFig(th) ==
    [drawn |-> TRUE, symbol |-> th.symbol, price_col |-> th.df.price_col,
     interval |-> th.interval, start |-> th.start, end |-> th.end,
     rows |-> th.df.rows, ma_cols |-> th.ma_cols,
     volume |-> IF th.df.volume = "nested" THEN "bars" ELSE "none"]

VolumeMsg == <<"invalid index to scalar variable.">>

\* the end of _draw_plot: the status and the button
draw_plot_end(i) ==
    /\ status_var' = Loaded(threads[i].symbol, threads[i].df.rows)
    /\ load_btn' = "normal"

\* _draw_plot without the try/except of lines 260-266: the exception of the
\* extraction leaves the function, which Tk reports
draw_plot_unguarded(i) ==
    /\ fig' = DrawnFig(threads[i])
    /\ IF threads[i].df.volume = "flat"
       THEN /\ threads' = [threads EXCEPT
                               ![i] = Retired([@ EXCEPT !.updates = @ + 1],
                                              "NameError")]
            /\ UNCHANGED <<load_btn, status_var, dialogs>>
       ELSE /\ draw_plot_end(i)
            /\ threads' = [threads EXCEPT
                               ![i] = Retired([@ EXCEPT !.updates = @ + 1],
                                              "drawn")]
            /\ UNCHANGED dialogs

\* _draw_plot: with a flat Volume column `v[0]` raises and the message box
\* opens in the middle of the function, which goes on when it is closed
draw_plot(i) ==
    /\ fig' = DrawnFig(threads[i])
    /\ IF threads[i].df.volume = "flat"
       THEN /\ dialogs' = Append(dialogs, Dialog("Volume error", VolumeMsg,
                                                 [kind |-> "draw", id |-> i]))
            /\ threads' = [threads EXCEPT ![i].callback = "drawing",
                                          ![i].updates = @ + 1]
            /\ UNCHANGED <<load_btn, status_var>>
       ELSE /\ draw_plot_end(i)
            /\ threads' = [threads EXCEPT
                               ![i] = Retired([@ EXCEPT !.updates = @ + 1],
                                              "drawn")]
            /\ UNCHANGED dialogs

\* the event loop runs the oldest `after` callback
RunCallback ==
    /\ after_queue # <<>>
    /\ after_queue' = Tail(after_queue)
    /\ LET cb == Head(after_queue)
       IN  \/ cb.kind = "error" /\ threads[cb.id].e # Unbound
              /\ on_fetch_error(cb.id)
           \/ cb.kind = "error" /\ threads[cb.id].e = Unbound
              /\ NameError(cb.id)
           \/ cb.kind = "draw" /\ draw_plot(cb.id)
    /\ UNCHANGED <<view, nactions>>

\* the user closes the top dialog, and the function that opened it goes on
Dismiss ==
    /\ dialogs # <<>>
    /\ LET top == dialogs[Len(dialogs)]
           rest == SubSeq(dialogs, 1, Len(dialogs) - 1)
       IN  \/ /\ top.cont.kind = "none"
              /\ dialogs' = rest
              /\ UNCHANGED <<load_btn, status_var, threads>>
           \/ /\ top.cont.kind = "draw"
              /\ dialogs' = rest
              /\ draw_plot_end(top.cont.id)
              /\ threads' = [threads EXCEPT
                                 ![top.cont.id] = Retired(@, "drawn")]
    /\ UNCHANGED <<view, fig, after_queue, nactions>>

(***************************************************************************)
(* The specification.                                                      *)
(***************************************************************************)
UserStep ==
    \/ \E t \in SymbolInputs : EditSymbol(t)
    \/ \E t \in StartInputs : EditStart(t)
    \/ \E t \in EndInputs : EditEnd(t)
    \/ \E iv \in IntervalChoices : SelectInterval(iv)
    \/ ClickLoad
    \/ ToggleMA5
    \/ ToggleMA20
    \/ ToggleMA50
    \/ \E title \in RangeChoices : set_quick_range(title)

ThreadStep(i) ==
    \/ Download(i)
    \/ ExitExcept(i)
    \/ ReadMA20(i)
    \/ ScheduleDraw(i)

Next ==
    /\ \/ UserStep
       \/ \E i \in 1..Len(threads) : ThreadStep(i)
       \/ RunCallback
       \/ Dismiss
    /\ UNCHANGED <<provider, today>>

Spec == Init /\ [][Next]_vars

\* the steps the claims about termination take for granted: a started thread
\* runs on, the Tk event loop runs the callbacks that wait, and an open
\* message box is closed
ThreadsRun ==
    (\E i \in 1..Len(threads) : ThreadStep(i)) /\ UNCHANGED <<provider, today>>

EventLoopRuns == RunCallback /\ UNCHANGED <<provider, today>>

DialogsClosed == Dismiss /\ UNCHANGED <<provider, today>>

FairSpec ==
    /\ Spec
    /\ WF_vars(ThreadsRun)
    /\ WF_vars(EventLoopRuns)
    /\ WF_vars(DialogsClosed)

(***************************************************************************)
(* One cycle from any request.  The state is the one __init__ has built    *)
(* when it calls _fetch_and_plot_async, for values of the entries, of the  *)
(* system clock and of the provider's tables other than those of the runs  *)
(* above; one trigger follows, and the cycle it starts.                    *)
(***************************************************************************)
\* system clocks: the run date, a leap day, a first of January, the epoch
Todays == { RunDate, Date(2024, 2, 29), Date(2025, 1, 1), Date(1970, 1, 1) }

\* start texts: empty (the fallback), and a date
StartTexts == { <<>>, <<"2", "0", "2", "4", "-", "0", "2", "-", "2", "8">> }

\* end texts: empty (the fallback), the last days of a February in a leap
\* year and in a common year, of a year, and of the calendar
EndTexts ==
    { <<>>,
      <<"2", "0", "2", "4", "-", "0", "2", "-", "2", "8">>,
      <<"2", "0", "2", "4", "-", "0", "2", "-", "2", "9">>,
      <<"2", "0", "2", "5", "-", "0", "2", "-", "2", "8">>,
      <<"2", "0", "2", "4", "-", "1", "2", "-", "3", "1">>,
      <<"9", "9", "9", "9", "-", "1", "2", "-", "3", "1">> }

\* the values of the combobox
IntervalSet == { IntervalValues[k] : k \in 1..Len(IntervalValues) }

\* values of interval_var: unset, the enumerated ones, and one that is not
IntervalTexts == IntervalSet \cup {"", "2d"}

\* the literal column: ten prices
TenPrices == <<10, 20, 30, 40, 50, 60, 70, 80, 90, 100>>

\* price columns around the window sizes 5, 20 and 50
LongSeries ==
    { Prices(n, seed) : n \in {1, 4, 5, 6, 19, 20, 21, 49, 50, 51},
                        seed \in {7, 13} } \cup {TenPrices}

AllTitles == { Ranges[k].title : k \in 1..Len(Ranges) }

\* what every such state shares: nothing started, one trigger to come
InitIdle ==
    /\ symbol_var = <<"A", "A", "P", "L">>
    /\ load_btn = "normal"
    /\ status_var = Ready
    /\ fig = EmptyFig
    /\ threads = <<>>
    /\ after_queue = <<>>
    /\ dialogs = <<>>
    /\ nactions = MaxUserActions - 1

\* any clock, any date texts, any interval value
InitRequest ==
    /\ today \in Todays
    /\ start_var \in StartTexts
    /\ end_var \in EndTexts
    /\ interval_var \in IntervalTexts
    /\ ma5_var = TRUE /\ ma20_var = TRUE /\ ma50_var = TRUE
    /\ provider \in { Provider(sh, Series) : sh \in Shapes }
    /\ InitIdle

\* any overlays, any price column
InitTransform ==
    /\ today = RunDate
    /\ start_var = IsoFormat(AddDays(today, 0 - 365))
    /\ end_var = IsoFormat(today)
    /\ interval_var = "1d"
    /\ ma5_var \in BOOLEAN /\ ma20_var \in BOOLEAN /\ ma50_var \in BOOLEAN
    /\ provider \in { Provider(sh, {p}) : sh \in Shapes, p \in LongSeries }
    /\ InitIdle

InitCycle == InitRequest \/ InitTransform

NextCycle ==
    /\ \/ ClickLoad
       \/ \E title \in AllTitles : set_quick_range(title)
       \/ \E i \in 1..Len(threads) : ThreadStep(i)
       \/ RunCallback
       \/ Dismiss
    /\ UNCHANGED <<provider, today>>

SpecCycle == InitCycle /\ [][NextCycle]_vars

(***************************************************************************)
(* Helpers of the properties.                                              *)
(***************************************************************************)
\* a step that runs _fetch_and_plot_async: the button, a checkbutton or a
\* quick range button
TriggerStep ==
    \/ ClickLoad
    \/ ToggleMA5
    \/ ToggleMA20
    \/ ToggleMA50
    \/ \E title \in RangeChoices : set_quick_range(title)

StartOf(text) == parse_date(text, AddDays(Today, 0 - 365))

EndOf(text) == parse_date(text, Today)

\* the entries do not make a request: the symbol is empty after trimming, a
\* date text is malformed, or the end is before the start
InvalidInput(symbol_text, start_text, end_text) ==
    \/ Strip(symbol_text) = <<>>
    \/ ~StartOf(start_text).ok
    \/ ~EndOf(end_text).ok
    \/ DateLess(EndOf(end_text).date, StartOf(start_text).date)

TopDialog == dialogs[Len(dialogs)]

\* the step opens one message box with the given title
Opens(title) ==
    /\ Len(dialogs') = Len(dialogs) + 1
    /\ SubSeq(dialogs', 1, Len(dialogs)) = dialogs
    /\ dialogs'[Len(dialogs')].title = title

\* text t occurs in message m
Contains(m, t) == \E k \in 1..(Len(m) - Len(t) + 1) : SubSeq(m, k, k + Len(t) - 1) = t

\* YYYY-MM-DD: four, two and two digits
IsStrictIso(t) ==
    /\ Len(t) = 10
    /\ t[5] = "-" /\ t[8] = "-"
    /\ \A k \in {1, 2, 3, 4, 6, 7, 9, 10} : IsDigit(t[k])

IsRetired(th) == th.callback \in {"drawn", "handled", "NameError"}

\* the callbacks of thread i that wait in the queue
Queued(i) == {k \in 1..Len(after_queue) : after_queue[k].id = i}

\* a step of a background thread: a thread changes its position
ThreadMoves == \E i \in 1..Len(threads) : threads'[i].pc # threads[i].pc

(***************************************************************************)
(* C1: when the background threads and the event queue are scheduled       *)
(* fairly and message boxes get closed, a disabled Load / Refresh button   *)
(* is enabled again: every cycle, failed or not, ends with the button      *)
(* enabled, and the button is never left disabled for ever.                *)
(***************************************************************************)
C1_NeverStuckDisabled == (load_btn = "disabled") ~> (load_btn = "normal")

(***************************************************************************)
(* C2: a cycle whose validation succeeded passes exactly one callback to   *)
(* the interactive thread, a draw after a successful fetch or an error     *)
(* after a failed one, never both and never none once the thread is done;  *)
(* the callback waits in the queue once until it runs, and the cycle       *)
(* updates the figure at most once.                                        *)
(***************************************************************************)
C2_OneCallbackPerCycle ==
    \A i \in 1..Len(threads) :
        LET th == threads[i]
        IN  /\ Len(th.sched) <= 1
            /\ th.pc = "done" => Len(th.sched) = 1
            /\ th.sched = <<"draw">> => th.e = Unbound
            /\ th.sched = <<"error">> => th.updates = 0
            /\ th.updates <= 1
            /\ Cardinality(Queued(i)) =
                   IF th.sched # <<>> /\ th.callback = "none" THEN 1 ELSE 0
            /\ \A k \in Queued(i) : <<after_queue[k].kind>> = th.sched

\* a thread is done and its one callback waits in the queue
C2_Witness ==
    \E i \in 1..Len(threads) :
        /\ threads[i].pc = "done"
        /\ threads[i].sched = <<"draw">>
        /\ Cardinality(Queued(i)) = 1

(***************************************************************************)
(* C3: a cycle whose provider call raised or returned nothing computes no  *)
(* moving average and never draws, and it ends handled by                  *)
(* _on_fetch_error: when its callback has run the status is "Error", the   *)
(* button is enabled and the figure is as before.                          *)
(***************************************************************************)
C3_FailureHandledNoDraw ==
    [][\A i \in 1..Len(threads) :
           threads[i].sched = <<"error">> =>
               /\ threads[i].ma_cols = <<>>
               /\ threads[i].updates = 0
               /\ (~IsRetired(threads[i]) /\ IsRetired(threads'[i])) =>
                      /\ threads'[i].callback = "handled"
                      /\ status_var' = StatusError
                      /\ load_btn' = "normal"
                      /\ fig' = fig]_vars

(***************************************************************************)
(* C4: handling a fetch failure leaves the figure exactly as it was; the   *)
(* step changes only the status (to "Error") and the button (to enabled)   *)
(* and opens the "Download error" message box with the failure's message.  *)
(***************************************************************************)
C4_ErrorLeavesChart ==
    [][(/\ after_queue # <<>>
        /\ after_queue' = Tail(after_queue)
        /\ Head(after_queue).kind = "error"
        /\ threads[Head(after_queue).id].e # Unbound) =>
           /\ fig' = fig
           /\ status_var' = StatusError
           /\ load_btn' = "normal"
           /\ Opens("Download error")
           /\ dialogs'[Len(dialogs')].msg = threads[Head(after_queue).id].e
           /\ UNCHANGED view]_vars

\* a failure has been handled while the chart of an earlier cycle is shown
C4_Witness ==
    /\ fig.drawn
    /\ status_var = StatusError
    /\ dialogs # <<>>
    /\ TopDialog.title = "Download error"

(***************************************************************************)
(* C5: a trigger whose validation fails starts no thread and schedules     *)
(* nothing; the "Input error" message box opens in the trigger step.       *)
(***************************************************************************)
C5_InvalidStartsNothing ==
    [][(TriggerStep /\ InvalidInput(symbol_var', start_var', end_var')) =>
           /\ threads' = threads
           /\ after_queue' = after_queue
           /\ Opens("Input error")]_vars

\* a validation message is shown
C5_Witness == dialogs # <<>> /\ TopDialog.title = "Input error"

(***************************************************************************)
(* C6, as stated: when validation fails the button is enabled as soon as   *)
(* the message is shown, whatever the state the trigger came in.           *)
(***************************************************************************)
C6_InvalidEndsEnabled ==
    [][(TriggerStep /\ InvalidInput(symbol_var', start_var', end_var')) =>
           load_btn' = "normal"]_vars

(***************************************************************************)
(* C6, amended: a trigger whose validation fails leaves the button and the *)
(* status as they were: enabled if the trigger came while idle, disabled   *)
(* if it came while another cycle was in flight.                           *)
(***************************************************************************)
C6_InvalidLeavesButton ==
    [][(TriggerStep /\ InvalidInput(symbol_var', start_var', end_var')) =>
           /\ load_btn' = load_btn
           /\ status_var' = status_var]_vars

\* a validation message is shown while a cycle is in flight and the button
\* is disabled
C6_Witness ==
    /\ dialogs # <<>>
    /\ TopDialog.title = "Input error"
    /\ load_btn = "disabled"
    /\ \E i \in 1..Len(threads) : ~IsRetired(threads[i])

(***************************************************************************)
(* C7: a cycle uses only what was captured when it was triggered: the      *)
(* moving averages it hands to the draw are those that were enabled then.  *)
(***************************************************************************)
C7_UsesSnapshot ==
    \A i \in 1..Len(threads) :
        (threads[i].sched = <<"draw">> /\ ~IsRetired(threads[i])) =>
            threads[i].ma_cols = threads[i].ma_seen

(***************************************************************************)
(* C8: a step of a background thread changes neither the status, the       *)
(* button nor the figure (nor a control or a dialog); all it does to the   *)
(* interactive thread is to add at most one callback to the queue.         *)
(***************************************************************************)
C8_WidgetsOnlyOnUIThread ==
    [][ThreadMoves =>
           /\ UNCHANGED <<load_btn, status_var, fig>>
           /\ UNCHANGED <<view, dialogs>>
           /\ \/ after_queue' = after_queue
              \/ /\ Len(after_queue') = Len(after_queue) + 1
                 /\ SubSeq(after_queue', 1, Len(after_queue)) = after_queue]_vars

\* a background thread has failed and passed its error callback on
C8_Witness ==
    \E i \in 1..Len(threads) :
        threads[i].sched = <<"error">> /\ Cardinality(Queued(i)) = 1

(***************************************************************************)
(* C9: with a symbol, for well-formed dates with start <= end a trigger    *)
(* starts a cycle whose request carries exactly those dates, and for       *)
(* end < start it starts none and shows "End date is before start date".   *)
(***************************************************************************)
C9_DateRange ==
    [][(/\ TriggerStep
        /\ Strip(symbol_var') # <<>>
        /\ StartOf(start_var').ok
        /\ EndOf(end_var').ok) =>
           IF DateLess(EndOf(end_var').date, StartOf(start_var').date)
           THEN /\ threads' = threads
                /\ Opens("Input error")
                /\ dialogs'[Len(dialogs')].msg = EndBeforeStartMsg
           ELSE /\ Len(threads') = Len(threads) + 1
                /\ threads'[Len(threads')].start = StartOf(start_var').date
                /\ threads'[Len(threads')].end = EndOf(end_var').date
                /\ dialogs' = dialogs]_vars

\* a cycle was started for start = end
C9_Witness ==
    \E i \in 1..Len(threads) :
        /\ threads[i].pc = "download"
        /\ threads[i].start = threads[i].end

(***************************************************************************)
(* C10: a date text that is not empty after trimming is accepted only if   *)
(* it is strict YYYY-MM-DD; any other text (a number of parts that is not  *)
(* three, a part that is not numeric) ends the trigger as a validation     *)
(* failure whose message contains the text.                                *)
(***************************************************************************)
C10_OnlyStrictDates ==
    [][(TriggerStep /\ Strip(symbol_var') # <<>>) =>
           \A t \in {Strip(start_var'), Strip(end_var')} :
               (t # <<>> /\ ~IsStrictIso(t)) =>
                   /\ threads' = threads
                   /\ Opens("Input error")
                   /\ \E u \in {Strip(start_var'), Strip(end_var')} :
                          /\ ~IsStrictIso(u)
                          /\ Contains(dialogs'[Len(dialogs')].msg, u)]_vars

\* the trigger of a cycle from any request: the button or a quick range
CycleTrigger ==
    \/ ClickLoad
    \/ \E title \in AllTitles : set_quick_range(title)

\* the step starts a thread
Starts == Len(threads') = Len(threads) + 1

\* the thread the step starts
Started == threads'[Len(threads')]

RECURSIVE SumOver(_, _, _)
SumOver(p, lo, hi) == IF lo > hi THEN 0 ELSE p[lo] + SumOver(p, lo + 1, hi)

\* column col is the trailing mean of window w over the prices of df when
\* the window is enabled, and is not there when it is not
ColumnOK(df, col, w, enabled) ==
    IF enabled
    THEN /\ Len(col) = Len(df.prices)
         /\ \A k \in 1..Len(col) :
                IF k < w
                THEN col[k].nan
                ELSE /\ ~col[k].nan
                     /\ col[k].den = w
                     /\ col[k].num = SumOver(df.prices, k - w + 1, k)
    ELSE col = <<>>

\* the thread has computed its moving averages and passed them on
Transformed(th) == th.pc = "done" /\ th.sched = <<"draw">> /\ ~IsRetired(th)

(***************************************************************************)
(* C12: for each window w of 5, 20 and 50 that is enabled the derived      *)
(* column is as long as the price column, undefined (NaN, not a number) at *)
(* the first w - 1 positions and the mean of the last w prices at every    *)
(* later one, so undefined throughout when there are fewer than w prices;  *)
(* a window that is not enabled gives no column.  For the ten prices       *)
(* 10..100 and w = 5 the fifth value is 150 / 5.                           *)
(***************************************************************************)
C12_MovingAverages ==
    \A i \in 1..Len(threads) :
        Transformed(threads[i]) =>
            LET df == threads[i].df
            IN  /\ ColumnOK(df, df.ma5, 5, ma5_var)
                /\ ColumnOK(df, df.ma20, 20, ma20_var)
                /\ ColumnOK(df, df.ma50, 50, ma50_var)
                /\ (df.prices = TenPrices /\ ma5_var) =>
                       /\ df.ma5[4] = NaN
                       /\ df.ma5[5] = Quotient(150, 5)
                       /\ df.ma5[10] = Quotient(400, 5)

\* 51 prices, the three windows enabled: the mean over 50 prices is
\* undefined at the 49th price and defined at the 50th and the 51st
C12_Witness ==
    \E i \in 1..Len(threads) :
        /\ Transformed(threads[i])
        /\ threads[i].df.rows = 51
        /\ threads[i].ma_cols = <<"MA5", "MA20", "MA50">>
        /\ threads[i].df.ma50[49].nan
        /\ ~threads[i].df.ma50[50].nan
        /\ ~threads[i].df.ma50[51].nan

\* what a press of quick range button r leaves in the date entries: the end
\* is today, the start is the one of the preset, and the thread the press
\* starts carries the pair
QuickRangeWritten(r) ==
    LET s == StartOf(start_var').date
        e == EndOf(end_var').date
    IN  /\ StartOf(start_var').ok /\ EndOf(end_var').ok
        /\ end_var' = IsoFormat(today)
        /\ e = today
        /\ start_var' = IsoFormat(s)
        /\ IF r.title = "YTD" THEN s = Date(today.y, 1, 1)
           ELSE IF r.title = "Max" THEN s = Date(1980, 1, 1)
           ELSE ToOrdinal(s) = ToOrdinal(today) - r.days
        /\ (r.title = "YTD" /\ today = Date(2024, 7, 15)) =>
               /\ start_var' = <<"2", "0", "2", "4", "-", "0", "1", "-", "0", "1">>
               /\ end_var' = <<"2", "0", "2", "4", "-", "0", "7", "-", "1", "5">>
        /\ Starts => Started.start = s /\ Started.end = e

\* the pair in the date entries is ordered
QuickRangeOrdered == ~DateLess(EndOf(end_var').date, StartOf(start_var').date)

(***************************************************************************)
(* C13, as stated: for every current date and every preset,                *)
(* _set_quick_range writes a pair with end = today and start <= end: the   *)
(* first of January of today's year for the year to date, 1980-01-01 for   *)
(* Max, today minus N days for an N-day preset; the pair is in the entries *)
(* when the fetch is triggered.                                            *)
(***************************************************************************)
C13_QuickRangeAnyClock ==
    [][\A k \in 1..Len(Ranges) :
           set_quick_range(Ranges[k].title) =>
               QuickRangeWritten(Ranges[k]) /\ QuickRangeOrdered]_vars

(***************************************************************************)
(* C13, amended: the same, with start <= end only when today is not        *)
(* before 1980-01-01, the fixed start of Max.                              *)
(***************************************************************************)
C13_QuickRange ==
    [][\A k \in 1..Len(Ranges) :
           set_quick_range(Ranges[k].title) =>
               /\ QuickRangeWritten(Ranges[k])
               /\ ~DateLess(today, Date(1980, 1, 1)) => QuickRangeOrdered]_vars

\* the year to date was pressed on 2024-07-15 and its cycle has started
C13_Witness ==
    /\ today = Date(2024, 7, 15)
    /\ start_var = <<"2", "0", "2", "4", "-", "0", "1", "-", "0", "1">>
    /\ end_var = <<"2", "0", "2", "4", "-", "0", "7", "-", "1", "5">>
    /\ \E i \in 1..Len(threads) :
           threads[i].start = Date(2024, 1, 1) /\ threads[i].end = today

(***************************************************************************)
(* C14: within a cycle the steps are ordered.  The step that starts the    *)
(* thread has disabled the button and set the loading status, and the      *)
(* provider is not yet called; a thread is at its moving averages only     *)
(* after its provider call has returned a table with rows; its draw is     *)
(* passed on only when the moving averages are done; and the figure is     *)
(* drawn for a thread only from what that thread passed on.                *)
(***************************************************************************)
C14_StepOrder ==
    [][/\ Starts =>
              /\ load_btn' = "disabled"
              /\ status_var'.kind = "Loading"
              /\ Started.pc = "download"
              /\ Started.call = NoCall
              /\ Started.df = NoDf
       /\ \A i \in 1..Len(threads) :
              LET th == threads[i]
              IN  /\ (~IsRetired(th) /\ (\/ th.pc \in {"ma20", "ma50"}
                                         \/ th.ma_cols # <<>>
                                         \/ th.sched = <<"draw">>)) =>
                         /\ th.call # NoCall
                         /\ th.df.rows > 0
                         /\ th.e = Unbound
                  /\ (\E k \in 1..Len(th.sched) : th.sched[k] = "draw") =>
                         th.pc = "done"
                  /\ threads'[i].updates > th.updates =>
                         /\ th.pc = "done"
                         /\ th.sched = <<"draw">>
                         /\ fig' = DrawnFig(th)]_vars

\* a cycle has gone through its steps to the drawn figure
C14_Witness ==
    /\ fig.drawn
    /\ status_var.kind = "Loaded"
    /\ \E i \in 1..Len(threads) : threads[i].callback = "drawn"

\* the callback of thread i starts to run in this step
CallbackStarts(i) == threads[i].callback = "none" /\ threads'[i].callback # "none"

\* the order of the positions of a thread
Forward ==
    { <<"download", "return">>, <<"download", "ma20">>, <<"return", "done">>,
      <<"ma20", "ma50">>, <<"ma50", "done">> }

C16_EveryTriggerLoads ==
    [][TriggerStep => load_btn' = "disabled" /\ status_var'.kind = "Loading"]_vars

(***************************************************************************)
(* C16, amended: a trigger validates first.  If the validation succeeds,   *)
(* the same step disables the button, sets the "Loading" status that       *)
(* describes the request (symbol, interval, start, end) and starts the     *)
(* thread, which has not yet called the provider; if it fails, the step    *)
(* shows the message and changes neither the button nor the status.        *)
(***************************************************************************)
C16_ValidTriggerLoads ==
    [][TriggerStep =>
           IF InvalidInput(symbol_var', start_var', end_var')
           THEN /\ ~Starts
                /\ load_btn' = load_btn
                /\ status_var' = status_var
           ELSE /\ Starts
                /\ Started.pc = "download"
                /\ Started.call = NoCall
                /\ load_btn' = "disabled"
                /\ status_var' =
                       [kind |-> "Loading",
                        symbol |-> Upper(Strip(symbol_var')),
                        interval |-> interval_var',
                        start |-> StartOf(start_var').date,
                        end |-> EndOf(end_var').date,
                        rows |-> 0]]_vars

\* the status describes the request of a trigger made for the symbol the
\* user typed, while its thread has not yet called the provider
C16_Witness ==
    /\ load_btn = "disabled"
    /\ status_var.kind = "Loading"
    /\ status_var.symbol = <<"F">>
    /\ \E i \in 1..Len(threads) :
           /\ threads[i].symbol = <<"F">>
           /\ threads[i].pc = "download"

\* thread i leaves the try block's first statements in this step
LeavesDownload(i) == threads[i].pc = "download" /\ threads'[i].pc # "download"

\* the provider was called for the request of th: the symbol, the interval and
\* the start date as they were validated, and the day after the end date
CalledFor(th, call) ==
    /\ call.symbol = th.symbol
    /\ call.interval = th.interval
    /\ call.start = IsoFormat(th.start)
    /\ parse_date(call.end, NoDate).ok
    /\ ToOrdinal(parse_date(call.end, NoDate).date) = ToOrdinal(th.end) + 1

\* the request the thread holds, and the title of a chart drawn in this step,
\* keep the end date as it was validated
KeepsLiteralEnd(i) ==
    /\ ~IsRetired(threads'[i]) =>
           threads'[i].end = threads[i].end /\ threads'[i].start = threads[i].start
    /\ (threads[i].callback = "none" /\ threads'[i].callback \in {"drawing", "drawn"})
           => fig'.end = threads[i].end /\ fig'.start = threads[i].start

(***************************************************************************)
(* C17, as stated: every fetch calls the provider with the validated       *)
(* symbol, interval and start date unchanged and with the day after the    *)
(* validated end date; the stored request and the title keep the end date. *)
(***************************************************************************)
C17_EndPlusOneDay ==
    [][\A i \in 1..Len(threads) :
           /\ LeavesDownload(i) => CalledFor(threads[i], threads'[i].call)
           /\ KeepsLiteralEnd(i)]_vars

(***************************************************************************)
(* C17 within the range of dates: the same for every validated end date    *)
(* before 9999-12-31;                                                      *)
(* for the end date 9999-12-31 the provider is not called and the cycle    *)
(* fails with "date value out of range".                                   *)
(***************************************************************************)
C17_EndPlusOneDayInRange ==
    [][\A i \in 1..Len(threads) :
           /\ LeavesDownload(i) =>
                  IF threads[i].end = DateMax
                  THEN /\ threads'[i].call = NoCall
                       /\ threads'[i].df = NoDf
                       /\ threads'[i].e = OverflowMsg
                  ELSE CalledFor(threads[i], threads'[i].call)
           /\ KeepsLiteralEnd(i)]_vars

\* a request that ends on the last day of a year was sent with the first day
\* of the next year, and its chart is titled with the last day of the year
C17_Witness ==
    \E i \in 1..Len(threads) :
        /\ threads[i].end = Date(2024, 12, 31)
        /\ threads[i].call.end = IsoFormat(Date(2025, 1, 1))
        /\ threads[i].callback = "drawing"
        /\ fig.drawn
        /\ fig.end = Date(2024, 12, 31)

\* _draw_plot starts for cycle i in this step
DrawStarts(i) ==
    /\ after_queue # <<>>
    /\ after_queue' = Tail(after_queue)
    /\ Head(after_queue).kind = "draw"
    /\ Head(after_queue).id = i

\* _draw_plot reaches its last two statements for cycle i in this step
DrawEnds(i) == threads[i].callback # "drawn" /\ threads'[i].callback = "drawn"

InFlight(i) == ~IsRetired(threads[i])

(***************************************************************************)
(* C19: whenever the Load button is enabled no cycle is in flight: no      *)
(* thread is running and no draw or error callback is pending.             *)
(***************************************************************************)
C19_EnabledMeansIdle ==
    load_btn = "normal" =>
        /\ \A i \in 1..Len(threads) : ~InFlight(i)
        /\ after_queue = <<>>

\* the chart shows the result of the cycle of thread th: its symbol and rows
\* and, in the title, its interval and date range
ShowsCycle(f, th) ==
    /\ f.drawn
    /\ f.symbol = th.symbol
    /\ f.rows = th.df.rows
    /\ f.interval = th.interval
    /\ f.start = th.start
    /\ f.end = th.end

(***************************************************************************)
(* C20: whenever a cycle sets the status to "Loaded S: n rows", the chart  *)
(* shows the result of that same cycle: symbol S, n rows, and the cycle's  *)
(* interval and date range in the title.                                   *)
(***************************************************************************)
C20_StatusDescribesChart ==
    [][\A i \in 1..Len(threads) :
           DrawEnds(i) =>
               /\ status_var' = Loaded(threads[i].symbol, threads[i].df.rows)
               /\ ShowsCycle(fig', threads[i])]_vars

====
